---- MODULE Spec2Model ----
(***************************************************************************)
(* Model of package netmerge (netmerge.go): parsing of IPv4 CIDR strings   *)
(* into IPv4Vector values, selection of the closest pair of vectors, the   *)
(* supernet merge of that pair, and the driver MergeCIDRs.                 *)
(*                                                                         *)
(* A uint32 is the pair <<hi, lo>> of its two 16-bit halves, so that the   *)
(* full 32-bit width of the program's arithmetic is kept.  A string is a   *)
(* record: kind "lit" (a text without '/'), kind "v4" (the text            *)
(* o1.o2.o3.o4/n, the numbers possibly out of range) or kind "v6" (an      *)
(* IPv6 prefix such as ::1/128).                                           *)
(***************************************************************************)
EXTENDS Integers, Sequences, FiniteSets, TLC

VARIABLES pc, input, maxIpNum, idx, out, vectors, err,
          closest1, closest2, firstIndex, lastIndex, newRange, satConv

vars == <<pc, input, maxIpNum, idx, out, vectors, err,
          closest1, closest2, firstIndex, lastIndex, newRange, satConv>>

\* Longest input sequence handed to MergeCIDRs, over all the strings of
\* Tokens and over the valid strings of ValidTokens.
MaxTokens == 3
MaxValidTokens == 4

----------------------------------------------------------------------------
(* uint32 arithmetic on <<hi, lo>> *)

Half == 2^16

U32Zero == <<0, 0>>
U32Max == <<Half - 1, Half - 1>>

U32Lt(a, b) == a[1] < b[1] \/ (a[1] = b[1] /\ a[2] < b[2])
U32Gt(a, b) == U32Lt(b, a)

\* a - b modulo 2^32
U32Sub(a, b) ==
    LET borrow == IF a[2] < b[2] THEN 1 ELSE 0
    IN  <<(a[1] - b[1] - borrow) % Half, (a[2] - b[2]) % Half>>

\* a + b modulo 2^32
U32Add(a, b) ==
    LET carry == (a[2] + b[2]) \div Half
    IN  <<(a[1] + b[1] + carry) % Half, (a[2] + b[2]) % Half>>

RECURSIVE BitAnd(_, _)
BitAnd(a, b) ==
    IF a = 0 \/ b = 0 THEN 0
    ELSE (a % 2) * (b % 2) + 2 * BitAnd(a \div 2, b \div 2)

RECURSIVE BitOr(_, _)
BitOr(a, b) ==
    IF a = 0 THEN b
    ELSE IF b = 0 THEN a
    ELSE (IF a % 2 = 1 \/ b % 2 = 1 THEN 1 ELSE 0) + 2 * BitOr(a \div 2, b \div 2)

RECURSIVE BitXor(_, _)
BitXor(a, b) ==
    IF a = 0 THEN b
    ELSE IF b = 0 THEN a
    ELSE ((a + b) % 2) + 2 * BitXor(a \div 2, b \div 2)

\* The operators on a 16-bit half, the all-zero and all-one operands (the
\* halves of most masks) answered without the bit loop.
And16(a, b) ==
    IF a = 0 \/ b = 0 THEN 0
    ELSE IF a = Half - 1 THEN b
    ELSE IF b = Half - 1 THEN a
    ELSE BitAnd(a, b)
Or16(a, b) ==
    IF a = 0 THEN b
    ELSE IF b = 0 THEN a
    ELSE IF a = Half - 1 \/ b = Half - 1 THEN Half - 1
    ELSE BitOr(a, b)
Xor16(a, b) ==
    IF a = 0 THEN b
    ELSE IF b = 0 THEN a
    ELSE IF a = Half - 1 THEN Half - 1 - b
    ELSE IF b = Half - 1 THEN Half - 1 - a
    ELSE BitXor(a, b)

U32And(a, b) == <<And16(a[1], b[1]), And16(a[2], b[2])>>
U32Or(a, b) == <<Or16(a[1], b[1]), Or16(a[2], b[2])>>
U32Xor(a, b) == <<Xor16(a[1], b[1]), Xor16(a[2], b[2])>>

\* The 32 binary digits of x, most significant first (fmt "%032b").
Bits16(h) == [i \in 1..16 |-> (h \div 2^(16 - i)) % 2]
Bits32(x) == Bits16(x[1]) \o Bits16(x[2])

\* byte(ip>>24), byte(ip>>16), byte(ip>>8), byte(ip)
Octets(x) == <<x[1] \div 256, x[1] % 256, x[2] \div 256, x[2] % 256>>

\* binary.BigEndian.Uint32 of a 4-byte slice
BigEndianUint32(b) == <<b[1] * 256 + b[2], b[3] * 256 + b[4]>>

----------------------------------------------------------------------------
(* strings *)

Lit(name) == [kind |-> "lit", o |-> <<>>, n |-> 0, s |-> name]
Str4(o, n) == [kind |-> "v4", o |-> o, n |-> n, s |-> ""]
Str6 == [kind |-> "v6", o |-> <<>>, n |-> 128, s |-> "::1"]

\* strings.Contains(i, "/")
ContainsSlash(str) == str.kind # "lit"

\* net.CIDRMask(n, 32) as a uint32
CIDRMask(n) ==
    << IF n >= 16 THEN Half - 1 ELSE Half - 2^(16 - n),
       IF n <= 16 THEN 0 ELSE Half - 2^(32 - n) >>

\* net.IPMask.Size: the number of leading ones of a mask
RECURSIVE LeadingOnes(_, _)
LeadingOnes(h, width) ==
    IF width = 0 \/ h < 2^(width - 1) THEN 0
    ELSE 1 + LeadingOnes(h - 2^(width - 1), width - 1)

MaskSize(m) ==
    IF m[1] = Half - 1 THEN 16 + LeadingOnes(m[2], 16) ELSE LeadingOnes(m[1], 16)

\* net.ParseCIDR: the address as written (ip), and the network (ipNet) with
\* the address masked.  An IPv6 prefix parses; its ip has no 4-byte form.
ParseCIDR(str) ==
    IF str.kind = "v4" /\ (\A k \in 1..4 : str.o[k] \in 0..255) /\ str.n \in 0..32
    THEN [err |-> FALSE, ip4 |-> str.o,
          ipNet |-> [IP |-> U32And(BigEndianUint32(str.o), CIDRMask(str.n)),
                     Mask |-> CIDRMask(str.n)]]
    ELSE IF str.kind = "v6"
    THEN [err |-> FALSE, ip4 |-> <<>>,
          ipNet |-> [IP |-> U32Zero, Mask |-> U32Max]]
    ELSE [err |-> TRUE, ip4 |-> <<>>, ipNet |-> [IP |-> U32Zero, Mask |-> U32Zero]]

ZeroVector == [FirstIP |-> U32Zero, LastIP |-> U32Zero,
               CIDR |-> [IP |-> U32Zero, Mask |-> U32Zero]]

\* The body of cidrToVector after p = net.ParseCIDR(cidr): res is "ok",
\* "err" (the parse error) or "panic" (the index out of range of Uint32 on
\* the nil slice ip.To4() of an IPv6 address).
VectorOfParse(p) ==
    IF p.err THEN [res |-> "err", vector |-> ZeroVector]
    ELSE IF Len(p.ip4) < 4 THEN [res |-> "panic", vector |-> ZeroVector]
    ELSE LET ipUint == BigEndianUint32(p.ip4)
             mask == p.ipNet.Mask
             lastIP == U32Or(U32And(ipUint, mask), U32Xor(mask, U32Max))
         IN  [res |-> "ok",
              vector |-> [FirstIP |-> ipUint, LastIP |-> lastIP, CIDR |-> p.ipNet]]

\* cidrToVector, with net.ParseCIDR evaluated once.
cidrToVector(cidr) ==
    CHOOSE r \in {VectorOfParse(p) : p \in {ParseCIDR(cidr)}} : TRUE

----------------------------------------------------------------------------
(* distance *)

\* uint32(float64(int32(d))): int32(d) is negative when bit 31 of d is set,
\* and the conversion of a negative float64 to uint32 is implementation-
\* dependent: it wraps back to d (amd64) or saturates to 0 (arm64).
SignedRoundTrip(d, sat) ==
    IF d[1] >= 2^15 /\ sat THEN U32Zero ELSE d

distance(v1, v2, sat) ==
    LET minIP == IF U32Gt(v1.FirstIP, v2.FirstIP)
                 THEN U32Sub(v1.FirstIP, v2.FirstIP)
                 ELSE U32Sub(v2.FirstIP, v1.FirstIP)
        maxIP == IF U32Gt(v1.LastIP, v2.LastIP)
                 THEN U32Sub(v1.LastIP, v2.LastIP)
                 ELSE U32Sub(v2.LastIP, v1.LastIP)
    IN  U32Add(SignedRoundTrip(minIP, sat), SignedRoundTrip(maxIP, sat))

----------------------------------------------------------------------------
(* closestVectors *)

\* math.Inf(1)
PosInf == [inf |-> TRUE, v |-> U32Zero]

\* The comparison replacing the best pair on an equal distance too.
DistLessOrEqual(dist, closestDist) ==
    closestDist.inf \/ ~U32Lt(closestDist.v, dist)

\* dist < closestDist on float64, dist converted from a uint32
DistLess(dist, closestDist) == closestDist.inf \/ U32Lt(dist, closestDist.v)

\* in[:k] followed by in[k+1:], k counted from 0
RemoveAt(in, k) == SubSeq(in, 1, k) \o SubSeq(in, k + 2, Len(in))

\* The two removals in the other order: index firstIndex, then lastIndex.
RemovePairAscending(in, fi, li) == RemoveAt(RemoveAt(in, fi), li)

\* The two removals of closestVectors: index lastIndex, then firstIndex.
RemovePair(in, fi, li) == RemoveAt(RemoveAt(in, li), fi)

\* The nested loops over i < j (indices from 0), st the loop's variables.
RECURSIVE ScanPairs(_, _, _, _, _)
ScanPairs(in, i, j, st, sat) ==
    IF i >= Len(in) - 1 THEN st
    ELSE IF j >= Len(in) THEN ScanPairs(in, i + 1, i + 2, st, sat)
    ELSE LET dist == distance(in[i + 1], in[j + 1], sat)
             nst == IF DistLess(dist, st.closestDist)
                    THEN [closest1 |-> in[i + 1], closest2 |-> in[j + 1],
                          closestDist |-> [inf |-> FALSE, v |-> dist],
                          firstIndex |-> IF i > j THEN j ELSE i,
                          lastIndex |-> IF i > j THEN i ELSE j]
                    ELSE st
         IN  ScanPairs(in, i, j + 1, nst, sat)

\* The guard accepting a single vector.
TooFewVectorsOne(in) == Len(in) < 1

\* The guard len(*in) < 2 of closestVectors.
TooFewVectors(in) == Len(in) < 2

closestVectors(in, sat) ==
    IF TooFewVectors(in)
    THEN [err |-> TRUE, closest1 |-> ZeroVector, closest2 |-> ZeroVector,
          firstIndex |-> 0, lastIndex |-> 0, in |-> in]
    ELSE LET st == ScanPairs(in, 0, 1,
                             [closest1 |-> ZeroVector, closest2 |-> ZeroVector,
                              closestDist |-> PosInf,
                              firstIndex |-> 0, lastIndex |-> 0], sat)
         IN  [err |-> FALSE, closest1 |-> st.closest1, closest2 |-> st.closest2,
              firstIndex |-> st.firstIndex, lastIndex |-> st.lastIndex,
              in |-> RemovePair(in, st.firstIndex, st.lastIndex)]

----------------------------------------------------------------------------
(* mergeIPNets *)

\* The loop of countDifferentBits over the two binary strings, i from 0.
RECURSIVE FirstDifferent(_, _, _)
FirstDifferent(bin1, bin2, i) ==
    IF i >= 32 THEN 0
    ELSE IF bin1[i + 1] # bin2[i + 1] THEN 32 - i
    ELSE FirstDifferent(bin1, bin2, i + 1)

\* countDifferentBits counting one bit too few.
countDifferentBitsShort(num1, num2) ==
    LET c == FirstDifferent(Bits32(num1), Bits32(num2), 0)
    IN  IF c > 0 THEN c - 1 ELSE 0

countDifferentBits(num1, num2) == FirstDifferent(Bits32(num1), Bits32(num2), 0)

\* net.IPv4(byte(ip>>24), byte(ip>>16), byte(ip>>8), byte(ip)).To4()
binaryToIP(ip) == Octets(ip)

\* mergeIPNets taking v2's last address without comparing.
mergeIPNetsNoMax(v1, v2) ==
    LET minIP == IF U32Gt(v1.FirstIP, v2.FirstIP) THEN v2.FirstIP ELSE v1.FirstIP
        maxIP == v2.LastIP
        newMask == 32 - countDifferentBits(minIP, maxIP)
    IN  cidrToVector(Str4(binaryToIP(minIP), newMask))

mergeIPNets(v1, v2) ==
    LET minIP == IF U32Gt(v1.FirstIP, v2.FirstIP) THEN v2.FirstIP ELSE v1.FirstIP
        maxIP == IF U32Gt(v1.LastIP, v2.LastIP) THEN v1.LastIP ELSE v2.LastIP
        newMask == 32 - countDifferentBits(minIP, maxIP)
        newIP == binaryToIP(minIP)
        newCIDR == Str4(newIP, newMask)
    IN  cidrToVector(newCIDR)

----------------------------------------------------------------------------
(* rendering *)

\* fmt.Sprintf("%d.%d.%d.%d", ...) of the four bytes of ip
uint32ToIP(ip) == Octets(ip)

\* fmt.Sprintf("%s/%d", uint32ToIP(v.FirstIP), size of v.CIDR.Mask)
RenderVector(v) == Str4(uint32ToIP(v.FirstIP), MaskSize(v.CIDR.Mask))

RenderAll(vs) == [k \in 1..Len(vs) |-> RenderVector(vs[k])]

----------------------------------------------------------------------------
(* MergeCIDRs *)

Tokens ==
    { Str4(<<10, 0, 0, 0>>, 24), Str4(<<10, 0, 1, 0>>, 24), Str4(<<10, 0, 2, 0>>, 24),
      Str4(<<10, 0, 0, 5>>, 24), Str4(<<0, 0, 0, 0>>, 32), Str4(<<128, 0, 0, 0>>, 32),
      Str4(<<10, 0, 0, 0>>, 33), Str6,
      Lit("not-a-cidr"), Lit("host-a") }

Inputs == UNION { [1..k -> Tokens] : k \in 0..MaxTokens }

\* Literals and valid IPv4 CIDRs only, for the longer inputs.
ValidTokens ==
    { Str4(<<10, 0, 0, 0>>, 24), Str4(<<10, 0, 1, 0>>, 24), Str4(<<10, 0, 0, 5>>, 24),
      Str4(<<128, 0, 0, 0>>, 32), Lit("not-a-cidr"), Lit("host-a") }

ValidInputs == UNION { [1..k -> ValidTokens] : k \in 0..MaxValidTokens }

MaxIpNums == {0, 255}

NoErr == "nil"
ParseErr == "parse"
VectorsErr == "vectors"

Init ==
    /\ pc = "idle"
    /\ input = <<>>
    /\ maxIpNum = 0
    /\ idx = 0
    /\ out = <<>>
    /\ vectors = <<>>
    /\ err = NoErr
    /\ closest1 = ZeroVector
    /\ closest2 = ZeroVector
    /\ firstIndex = 0
    /\ lastIndex = 0
    /\ newRange = ZeroVector
    /\ satConv = FALSE

\* The call MergeCIDRs(input, maxIpNum), input taken from the set ins.
CallWith(ins) ==
    /\ pc = "idle"
    /\ \E in \in ins, m \in MaxIpNums :
          /\ input' = in
          /\ maxIpNum' = m
    /\ idx' = 0
    /\ pc' = "range"
    /\ UNCHANGED <<out, vectors, err, closest1, closest2, firstIndex, lastIndex,
                   newRange, satConv>>

Call == CallWith(Inputs)
CallValid == CallWith(ValidInputs)

\* One iteration of the range loop on a string without '/'.
RangeLiteral ==
    /\ pc = "range"
    /\ idx < Len(input)
    /\ ~ContainsSlash(input[idx + 1])
    /\ out' = Append(out, input[idx + 1])
    /\ idx' = idx + 1
    /\ UNCHANGED <<pc, input, maxIpNum, vectors, err, closest1, closest2,
                   firstIndex, lastIndex, newRange, satConv>>

\* One iteration on a string with '/' that cidrToVector converts.
RangeVector ==
    /\ pc = "range"
    /\ idx < Len(input)
    /\ ContainsSlash(input[idx + 1])
    /\ \E r \in {cidrToVector(input[idx + 1])} :
          /\ r.res = "ok"
          /\ vectors' = Append(vectors, r.vector)
    /\ idx' = idx + 1
    /\ UNCHANGED <<pc, input, maxIpNum, out, err, closest1, closest2,
                   firstIndex, lastIndex, newRange, satConv>>

\* One iteration on a string with '/' that cidrToVector rejects:
\* return []string{}, err.
RangeParseError ==
    /\ pc = "range"
    /\ idx < Len(input)
    /\ ContainsSlash(input[idx + 1])
    /\ cidrToVector(input[idx + 1]).res = "err"
    /\ out' = <<>>
    /\ err' = ParseErr
    /\ pc' = "returned"
    /\ UNCHANGED <<input, maxIpNum, idx, vectors, closest1, closest2,
                   firstIndex, lastIndex, newRange, satConv>>

\* One iteration on a string with '/' on which cidrToVector panics.
RangePanic ==
    /\ pc = "range"
    /\ idx < Len(input)
    /\ ContainsSlash(input[idx + 1])
    /\ cidrToVector(input[idx + 1]).res = "panic"
    /\ pc' = "panicked"
    /\ UNCHANGED <<input, maxIpNum, idx, out, vectors, err, closest1, closest2,
                   firstIndex, lastIndex, newRange, satConv>>

\* v1, v2, err := closestVectors(&vectors), with its error return.
Select ==
    /\ pc = "range"
    /\ idx >= Len(input)
    /\ \E sat \in BOOLEAN :
          LET r == closestVectors(vectors, sat)
          IN  /\ satConv' = sat
              /\ closest1' = r.closest1
              /\ closest2' = r.closest2
              /\ firstIndex' = r.firstIndex
              /\ lastIndex' = r.lastIndex
              /\ vectors' = r.in
              /\ IF r.err
                 THEN /\ out' = <<>>
                      /\ err' = VectorsErr
                      /\ pc' = "returned"
                 ELSE /\ pc' = "merge"
                      /\ UNCHANGED <<out, err>>
    /\ UNCHANGED <<input, maxIpNum, idx, newRange>>

\* newRange, err = mergeIPNets(&v1, &v2), its error return, and
\* vectors = append(vectors, newRange).
Merge ==
    /\ pc = "merge"
    /\ LET r == mergeIPNets(closest1, closest2)
       IN  /\ r.res # "panic"
           /\ newRange' = r.vector
           /\ IF r.res = "err"
              THEN /\ out' = <<>>
                   /\ err' = ParseErr
                   /\ pc' = "returned"
                   /\ UNCHANGED vectors
              ELSE /\ vectors' = Append(vectors, r.vector)
                   /\ pc' = "render"
                   /\ UNCHANGED <<out, err>>
    /\ UNCHANGED <<input, maxIpNum, idx, closest1, closest2, firstIndex,
                   lastIndex, satConv>>

\* The final loop assigning to out instead of appending to it.
RenderOverwriting ==
    /\ pc = "render"
    /\ out' = RenderAll(vectors)
    /\ pc' = "returned"
    /\ UNCHANGED <<input, maxIpNum, idx, vectors, err, closest1, closest2,
                   firstIndex, lastIndex, newRange, satConv>>

\* The final loop over vectors and return out, err.
Render ==
    /\ pc = "render"
    /\ out' = out \o RenderAll(vectors)
    /\ pc' = "returned"
    /\ UNCHANGED <<input, maxIpNum, idx, vectors, err, closest1, closest2,
                   firstIndex, lastIndex, newRange, satConv>>

Next ==
    \/ Call
    \/ RangeLiteral
    \/ RangeVector
    \/ RangeParseError
    \/ RangePanic
    \/ Select
    \/ Merge
    \/ Render

Spec == Init /\ [][Next]_vars

\* The calls on longer inputs of literals and valid CIDRs, where no string
\* is rejected.
NextValid ==
    \/ CallValid
    \/ RangeLiteral
    \/ RangeVector
    \/ Select
    \/ Merge
    \/ Render

SpecValid == Init /\ [][NextValid]_vars

----------------------------------------------------------------------------
(* Vocabulary of the properties *)

U32Le(a, b) == ~U32Lt(b, a)
U32Min(a, b) == IF U32Lt(a, b) THEN a ELSE b
U32Max2(a, b) == IF U32Lt(a, b) THEN b ELSE a

\* a string o1.o2.o3.o4/n with every octet in 0..255 and n in 0..32
ValidV4(str) ==
    /\ str.kind = "v4"
    /\ \A k \in 1..4 : str.o[k] >= 0 /\ str.o[k] <= 255
    /\ str.n >= 0 /\ str.n <= 32

SlashTokens(in) == SelectSeq(in, ContainsSlash)
Literals(in) == SelectSeq(in, LAMBDA t : ~ContainsSlash(t))
AllSlashValid(in) == \A k \in 1..Len(in) : ContainsSlash(in[k]) => ValidV4(in[k])

\* The working collection as the range loop leaves it on an input whose
\* strings with '/' are all valid.
Parsed(in) == [k \in 1..Len(SlashTokens(in)) |-> cidrToVector(SlashTokens(in)[k]).vector]

\* The bits of x below prefix length n (its host bits) and the number of
\* leading bits on which x and y agree: 32 less the length of x XOR y.
HostMask(n) == U32Xor(CIDRMask(n), U32Max)
RECURSIVE BitLength(_)
BitLength(z) == IF z = 0 THEN 0 ELSE 1 + BitLength(z \div 2)
SharedLeadingBits(x, y) ==
    LET d == U32Xor(x, y)
    IN  IF d[1] > 0 THEN 16 - BitLength(d[1]) ELSE 32 - BitLength(d[2])

\* |a - b| and the sum |a1 - b1| + |a2 - b2| without wraparound, as the
\* triple <<carry, hi, lo>>.
AbsDiff(a, b) == IF U32Lt(a, b) THEN U32Sub(b, a) ELSE U32Sub(a, b)
WideSum(a, b) ==
    LET lo == a[2] + b[2]
        hi == a[1] + b[1] + lo \div Half
    IN  <<hi \div Half, hi % Half, lo % Half>>
WideLe(x, y) ==
    \/ x[1] < y[1]
    \/ x[1] = y[1] /\ x[2] < y[2]
    \/ x[1] = y[1] /\ x[2] = y[2] /\ x[3] <= y[3]
TrueDistance(A, B) ==
    WideSum(AbsDiff(A.FirstIP, B.FirstIP), AbsDiff(A.LastIP, B.LastIP))

\* The elements of seq at the indices (from 0) other than i and j, in order.
AllBut(seq, i, j) ==
    LET kept == SelectSeq([k \in 1..Len(seq) |-> <<k - 1, seq[k]>>],
                          LAMBDA e : e[1] # i /\ e[1] # j)
    IN  [k \in 1..Len(kept) |-> kept[k][2]]

PairsOf(n) == {p \in (0..(n - 1)) \X (0..(n - 1)) : p[1] < p[2]}

\* (i1, j1) comes no later than (i2, j2) in the scan order of the pairs
ScanLe(i1, j1, i2, j2) == i1 < i2 \/ (i1 = i2 /\ j1 <= j2)

MinAddr == U32Min(closest1.FirstIP, closest2.FirstIP)
MaxAddr == U32Max2(closest1.LastIP, closest2.LastIP)

Merged == pc = "render" \/ (pc = "returned" /\ err = NoErr)
NewPrefixLength == MaskSize(newRange.CIDR.Mask)

----------------------------------------------------------------------------
(* Properties *)

\* C1: containment.  The vector returned by mergeIPNets for two parsed
\* vectors starts no later than the smaller first address and ends no
\* earlier than the larger last address, so it contains both vectors.
C1_Containment ==
    Merged =>
        /\ U32Le(newRange.FirstIP, MinAddr)
        /\ U32Le(MaxAddr, newRange.LastIP)
        /\ \A v \in {closest1, closest2} :
              U32Le(newRange.FirstIP, v.FirstIP) /\ U32Le(v.LastIP, newRange.LastIP)

\* A merge of two widely separated vectors, whose common prefix is empty.
C1_Witness ==
    /\ Merged
    /\ NewPrefixLength = 0
    /\ (closest1.FirstIP[1] >= 2^15) # (closest2.FirstIP[1] >= 2^15)

\* C3: parser contract.  Every vector cidrToVector builds from a valid
\* string a.b.c.d/n has first = address AND mask and last = first OR NOT mask.
C3_ParserContract ==
    pc = "range" =>
        \A k \in 1..Len(vectors) :
            LET str == SlashTokens(SubSeq(input, 1, idx))[k]
                addr == BigEndianUint32(str.o)
            IN  /\ vectors[k].FirstIP = U32And(addr, CIDRMask(str.n))
                /\ vectors[k].LastIP = U32Or(vectors[k].FirstIP, HostMask(str.n))

\* A vector, and a string o1.o2.o3.o4/n, aligned to its prefix boundary.
Aligned(v) ==
    /\ U32Le(v.FirstIP, v.LastIP)
    /\ U32And(v.FirstIP, HostMask(MaskSize(v.CIDR.Mask))) = U32Zero
    /\ v.LastIP = U32Or(v.FirstIP, HostMask(MaskSize(v.CIDR.Mask)))
AlignedString(str) ==
    U32And(BigEndianUint32(str.o), HostMask(str.n)) = U32Zero

\* C4: the merged vector is CIDR-aligned when both merged vectors come from
\* aligned strings: first <= last, the host bits of first are 0, last is
\* first with the host bits set, and the rendered string is aligned.
C4_MergedAligned ==
    (Merged /\ Aligned(closest1) /\ Aligned(closest2)) =>
        Aligned(newRange) /\ AlignedString(RenderVector(newRange))

\* C8: supernet prefix length.  The prefix length of the merged vector is the
\* number of leading bits on which the smallest first and the largest last
\* address agree, no longer prefix covers both, and mergeIPNets returns no
\* error once two vectors were selected.
C8_SupernetPrefixLength ==
    /\ Merged =>
          /\ NewPrefixLength = SharedLeadingBits(MinAddr, MaxAddr)
          /\ (MinAddr = MaxAddr => NewPrefixLength = 32)
          /\ ((MinAddr[1] >= 2^15) # (MaxAddr[1] >= 2^15) => NewPrefixLength = 0)
          /\ \A m \in (NewPrefixLength + 1)..32 :
                U32And(MinAddr, CIDRMask(m)) # U32And(MaxAddr, CIDRMask(m))
    /\ (pc = "returned" /\ firstIndex < lastIndex) => err = NoErr

\* A merge of two equal /32 vectors, and so with prefix length 32.
C8_Witness ==
    /\ Merged
    /\ MinAddr = MaxAddr
    /\ NewPrefixLength = 32

\* C2: global minimality.  The selected pair has a distance
\* |A.first - B.first| + |A.last - B.last| no larger than that of any other
\* pair of the collection.
C2_GlobalMinimality ==
    pc = "merge" =>
        \A p \in PairsOf(Len(Parsed(input))) :
            WideLe(TrueDistance(closest1, closest2),
                   TrueDistance(Parsed(input)[p[1] + 1], Parsed(input)[p[2] + 1]))

\* C5: arity guard.  When every string with '/' is valid, a call with 0 or 1
\* of them returns the vectors error and an empty output, and a call with 2
\* or more never returns that error.
C5_ArityGuard ==
    (pc = "returned" /\ AllSlashValid(input)) =>
        IF Len(SlashTokens(input)) < 2
        THEN err = VectorsErr /\ out = <<>>
        ELSE err # VectorsErr

\* A call with one valid CIDR and at least one literal, returned.
C5_Witness ==
    /\ pc = "returned"
    /\ AllSlashValid(input)
    /\ Len(SlashTokens(input)) = 1
    /\ Len(Literals(input)) >= 1
    /\ err = VectorsErr

\* C6: a parse failure aborts the call.  When some string with '/' is not a
\* valid dotted-quad/prefix pair, the call ends by returning the parse error
\* and an empty output.
C6_ParseFailureAborts ==
    (/\ pc \in {"returned", "panicked"}
     /\ \E k \in 1..Len(input) : ContainsSlash(input[k]) /\ ~ValidV4(input[k]))
        => (pc = "returned" /\ err = ParseErr /\ out = <<>>)

\* The strings with '/' of the input that were not selected, in order.
Unselected == AllBut(SlashTokens(input), firstIndex, lastIndex)

C9_RemovalFrame ==
    [][(pc = "range" /\ pc' = "merge") =>
          /\ firstIndex' < lastIndex'
          /\ lastIndex' < Len(vectors)
          /\ Len(vectors') = Len(vectors) - 2
          /\ closest1' = vectors[firstIndex' + 1]
          /\ closest2' = vectors[lastIndex' + 1]
          /\ vectors' = AllBut(vectors, firstIndex', lastIndex')
      ]_vars

\* A selection of two adjacent indices, the second the last index, that
\* leaves an element in the collection.
C9_Witness ==
    /\ pc = "merge"
    /\ Len(vectors) = 1
    /\ lastIndex = firstIndex + 1
    /\ lastIndex = Len(Parsed(input)) - 1

\* C10: tie-breaking.  The selected pair is the first pair, in the scan order
\* of the pairs (i, j), i < j, among those of the smallest distance value.
C10_TieBreaking ==
    pc = "merge" =>
        LET in == Parsed(input)
            best == distance(in[firstIndex + 1], in[lastIndex + 1], satConv)
        IN  /\ closest1 = in[firstIndex + 1]
            /\ closest2 = in[lastIndex + 1]
            /\ \A p \in PairsOf(Len(in)) :
                  LET d == distance(in[p[1] + 1], in[p[2] + 1], satConv)
                  IN  /\ ~U32Lt(d, best)
                      /\ d = best => ScanLe(firstIndex, lastIndex, p[1], p[2])

\* A selection among three distinct vectors where a later pair ties with
\* the selected one.
C10_Witness ==
    /\ pc = "merge"
    /\ LET in == Parsed(input)
       IN  /\ Len(in) = 3
           /\ in[1] # in[2] /\ in[2] # in[3] /\ in[1] # in[3]
           /\ \E p \in PairsOf(3) :
                 /\ p # <<firstIndex, lastIndex>>
                 /\ distance(in[p[1] + 1], in[p[2] + 1], satConv)
                       = distance(closest1, closest2, satConv)

====
